---- MODULE Spec2Model ----
(***************************************************************************)
(* Model of the signal / connection mechanism (signals.h, and the second   *)
(* version of the same header found in src/unnamed/part_000) and of the    *)
(* intrusive doubly linked list (intrusive_list.h) they are built on.      *)
(*                                                                         *)
(* Memory is modelled as a heap of list nodes: every node has the two      *)
(* pointer fields next and prev of list_element.  Node 0 is the fake_node  *)
(* of the signal's connection list, nodes 1..NumHandles are the storage    *)
(* locations of connection objects (a location can be destroyed and        *)
(* constructed again), node -1 is the fake_node of a second list that is   *)
(* used by the list-only specification.                                    *)
(***************************************************************************)
EXTENDS Integers, Sequences, FiniteSets, TLC

NumHandles == 3
MaxSubs == 3
MaxDepth == 2
MaxOps == 6
MaxLog == 4

fake_node == 0
other_fake == -1
Handle == 1..NumHandles
Node == Handle \cup {fake_node, other_fake}
Variants == {"signals_h", "part_000"}

VARIABLES variant, nodes, conn, alive, top_token, toks, exc, nsub, nops, uaf, thrown, fin, last

vars == <<variant, nodes, conn, alive, top_token, toks, exc, nsub, nops, uaf, thrown, fin, last>>

(***************************************************************************)
(* intrusive_list.h                                                        *)
(***************************************************************************)
SetNext(L, n, v) == [L EXCEPT ![n].next = v]
SetPrev(L, n, v) == [L EXCEPT ![n].prev = v]

SelfLinked(n) == [next |-> n, prev |-> n]

is_linked(L, n) == L[n].next # n \/ L[n].prev # n

unlink(L, n) ==
  LET a == SetPrev(L, L[n].next, L[n].prev)
      b == SetNext(a, a[n].prev, a[n].next)
  IN  [b EXCEPT ![n] = SelfLinked(n)]

empty(L, f) == L[f].next = f

begin(L, f) == L[f].next

non_const_transform(L, cur) == L[L[cur].prev].next

push_front(L, f, n) ==
  LET a == SetPrev(L, L[f].next, n)
      b == SetNext(a, n, a[f].next)
      c == SetPrev(b, n, f)
  IN  SetNext(c, f, n)

push_back(L, f, n) ==
  LET a == SetNext(L, L[f].prev, n)
      b == SetPrev(a, n, a[f].prev)
      c == SetNext(b, n, f)
  IN  SetPrev(c, f, n)

pop_front(L, f) == unlink(L, L[f].next)

pop_back(L, f) == unlink(L, L[f].prev)

insert(L, pos, n) ==
  LET p == non_const_transform(L, pos)
      a == SetNext(L, L[p].prev, n)
      b == SetNext(a, n, p)
      c == SetPrev(b, n, b[p].prev)
  IN  SetPrev(c, p, n)

erase(L, pos) ==
  LET p == non_const_transform(L, pos)
      q == L[p].next
  IN  unlink(L, L[q].prev)

splice(L, pos, first, last_) ==
  IF first = last_ THEN L
  ELSE
    LET p == non_const_transform(L, pos)
        fi == non_const_transform(L, first)
        la == non_const_transform(L, last_)
        a == SetNext(L, L[p].prev, fi)
        b == SetNext(a, a[fi].prev, la)
        c == SetNext(b, b[la].prev, p)
        tmp == c[fi].prev
        d == SetPrev(c, fi, c[p].prev)
        e == SetPrev(d, p, d[la].prev)
    IN  SetPrev(e, la, tmp)

RECURSIVE clear(_, _, _)
clear(L, f, k) ==
  IF empty(L, f) \/ k = 0 THEN L ELSE clear(pop_back(L, f), f, k - 1)

(* list::swap(node1, node2): four exchanges, each on the pointers the      *)
(* previous ones left                                                      *)
swap(L, n1, n2) ==
  LET L1 == [L EXCEPT ![n1].prev = L[n2].prev, ![n2].prev = L[n1].prev]
      a == L1[n1].prev
      b == L1[n2].prev
      L2 == [L1 EXCEPT ![a].next = L1[b].next, ![b].next = L1[a].next]
      L3 == [L2 EXCEPT ![n1].next = L2[n2].next, ![n2].next = L2[n1].next]
      c == L3[n1].next
      d == L3[n2].next
  IN  [L3 EXCEPT ![c].prev = L3[d].prev, ![d].prev = L3[c].prev]

(* list(list &&cur_list): list() first, then swap and cur_list.clear() *)
list_move_ctor(L, d, l) ==
  clear(swap([L EXCEPT ![d] = SelfLinked(d)], d, l), l, NumHandles + 1)

(* a move assignment that leaves in cur_list what this held *)
list_move_assign_noclear(L, d, l) ==
  IF d # l THEN swap(L, d, l) ELSE L

(* list &operator=(list &&cur_list) *)
list_move_assign(L, d, l) ==
  IF d # l THEN clear(swap(L, d, l), l, NumHandles + 1) ELSE L

RECURSIVE WalkNext(_, _, _, _)
WalkNext(L, f, n, k) ==
  IF n = f \/ k = 0 THEN <<>> ELSE <<n>> \o WalkNext(L, f, L[n].next, k - 1)

RECURSIVE WalkPrev(_, _, _, _)
WalkPrev(L, f, n, k) ==
  IF n = f \/ k = 0 THEN <<>> ELSE <<n>> \o WalkPrev(L, f, L[n].prev, k - 1)

Forward(L, f) == WalkNext(L, f, L[f].next, NumHandles + 2)

Backward(L, f) == WalkPrev(L, f, L[f].prev, NumHandles + 2)

Range(s) == {s[i] : i \in DOMAIN s}

Reverse(s) == [i \in 1..Len(s) |-> s[Len(s) + 1 - i]]


(***************************************************************************)
(* signals.h / part_000: state                                             *)
(*   variant    which of the two versions of the signal header is built    *)
(*   nodes      next / prev of every list_element                          *)
(*   conn       per storage location: constructed or not, the sig pointer  *)
(*              and the slot (0 = empty std::function, k = k-th callback   *)
(*              that was connected)                                        *)
(*   alive      the signal object exists                                   *)
(*   top_token  signal::top_token (0 = nullptr, d = token of the emission  *)
(*              at call depth d)                                           *)
(*   toks       the call stack of emissions in progress, one               *)
(*              iteration_token each, plus what that emission has done     *)
(*   exc        an exception is propagating into the enclosing callback    *)
(*   nsub       number of connect calls so far                             *)
(*   nops       number of operations the program has started               *)
(*   uaf        accesses to objects whose lifetime has ended               *)
(*   thrown     an exception has left an emission of the living signal     *)
(*   fin        the emission that returned in the last step                *)
(*   last       the operation of the last step                             *)
(***************************************************************************)
FreeConn == [st |-> "free", sig |-> "uninit", slot |-> 0]

NoFin == [outcome |-> "none", log |-> <<>>, snap |-> <<>>, kinds |-> {},
          top0 |-> 0, below |-> <<>>, depth |-> 0]

Op(op, h, o) == [op |-> op, h |-> h, o |-> o, args |-> <<>>]

Cur == [nodes |-> nodes, conn |-> conn, toks |-> toks, top |-> top_token, uaf |-> uaf]

Depth == Len(toks)

Running == last.op # "abort" /\ ~exc

Budget == nops < MaxOps /\ nops' = nops + 1

Live(h) == conn[h].st = "live"

(* storage for a new connection object: the first free location *)
Fresh(h) == ~Live(h) /\ \A g \in Handle : g < h => Live(g)

RECURSIVE TokenChain(_, _, _)
TokenChain(t, tk, k) ==
  IF t = 0 \/ k = 0 \/ t \notin DOMAIN tk THEN {}
  ELSE {t} \cup TokenChain(tk[t].next, tk, k - 1)

Slots(S, f) == LET w == Forward(S.nodes, f) IN [i \in 1..Len(w) |-> S.conn[w[i]].slot]

(* what a callback did to the signal, as seen by every emission in progress *)
AddKind(tk, k) ==
  [i \in DOMAIN tk |->
     [tk[i] EXCEPT !.kinds = IF k = "other" \/ @ = {"other"} THEN {"other"} ELSE @ \cup {k}]]

DiscKind(h) ==
  IF ~is_linked(nodes, h) THEN "other"
  ELSE IF Depth = 0 THEN "other"
  ELSE IF toks[Depth].copy = h THEN "disc_self"
  ELSE IF toks[Depth].current = h THEN "disc_next"
  ELSE IF conn[h].slot \in Range(toks[Depth].log) THEN "disc_visited"
  ELSE "other"

(* moving the connection the cursor of the innermost emission designates *)
(* into a handle that is not linked                                       *)
MoveKind(h, o) ==
  IF /\ Depth > 0 /\ h # o /\ is_linked(nodes, o) /\ ~is_linked(nodes, h)
     /\ toks[Depth].current = o
  THEN "move_next"
  ELSE "other"

DerefSig(S, h) == IF S.conn[h].sig = "sig" /\ alive THEN {} ELSE {"sig"}

(* disconnect without the is_linked test *)
disconnect_unguarded(S, h) ==
  LET n1 == unlink(S.nodes, h)
      c1 == [S.conn EXCEPT ![h].slot = 0]
      ch == TokenChain(S.top, S.toks, MaxDepth + 1)
      t1 == [i \in DOMAIN S.toks |->
               IF i \in ch /\ S.toks[i].current # fake_node /\ S.toks[i].current = h
               THEN [S.toks[i] EXCEPT !.current = n1[S.toks[i].current].next]
               ELSE S.toks[i]]
      c2 == IF variant = "signals_h" THEN [c1 EXCEPT ![h].sig = "null"] ELSE c1
  IN  [S EXCEPT !.nodes = n1, !.conn = c2, !.toks = t1, !.uaf = @ \cup DerefSig(S, h)]

(* disconnect that leaves the callback in the connection *)
disconnect_keep_slot(S, h) ==
  IF is_linked(S.nodes, h) THEN
    LET n1 == unlink(S.nodes, h)
        ch == TokenChain(S.top, S.toks, MaxDepth + 1)
        t1 == [i \in DOMAIN S.toks |->
                 IF i \in ch /\ S.toks[i].current # fake_node /\ S.toks[i].current = h
                 THEN [S.toks[i] EXCEPT !.current = n1[S.toks[i].current].next]
                 ELSE S.toks[i]]
        c2 == IF variant = "signals_h" THEN [S.conn EXCEPT ![h].sig = "null"] ELSE S.conn
    IN  [S EXCEPT !.nodes = n1, !.conn = c2, !.toks = t1, !.uaf = @ \cup DerefSig(S, h)]
  ELSE S

(* disconnect without the test that the cursor designates this connection *)
disconnect_all(S, h) ==
  IF is_linked(S.nodes, h) THEN
    LET n1 == unlink(S.nodes, h)
        c1 == [S.conn EXCEPT ![h].slot = 0]
        ch == TokenChain(S.top, S.toks, MaxDepth + 1)
        t1 == [i \in DOMAIN S.toks |->
                 IF i \in ch /\ S.toks[i].current # fake_node
                 THEN [S.toks[i] EXCEPT !.current = n1[S.toks[i].current].next]
                 ELSE S.toks[i]]
        c2 == IF variant = "signals_h" THEN [c1 EXCEPT ![h].sig = "null"] ELSE c1
    IN  [S EXCEPT !.nodes = n1, !.conn = c2, !.toks = t1, !.uaf = @ \cup DerefSig(S, h)]
  ELSE S

(* connection::disconnect *)
disconnect(S, h) ==
  IF is_linked(S.nodes, h) THEN
    LET n1 == unlink(S.nodes, h)
        c1 == [S.conn EXCEPT ![h].slot = 0]
        ch == TokenChain(S.top, S.toks, MaxDepth + 1)
        t1 == [i \in DOMAIN S.toks |->
                 IF i \in ch /\ S.toks[i].current # fake_node /\ S.toks[i].current = h
                 THEN [S.toks[i] EXCEPT !.current = n1[S.toks[i].current].next]
                 ELSE S.toks[i]]
        c2 == IF variant = "signals_h" THEN [c1 EXCEPT ![h].sig = "null"] ELSE c1
    IN  [S EXCEPT !.nodes = n1, !.conn = c2, !.toks = t1, !.uaf = @ \cup DerefSig(S, h)]
  ELSE S

(* safe_move without the loop over the tokens *)
safe_move_norepoint(S, h, o) ==
  IF is_linked(S.nodes, o) THEN
    LET n1 == insert(S.nodes, o, h)
        n2 == unlink(n1, o)
    IN  [S EXCEPT !.nodes = n2, !.uaf = @ \cup DerefSig(S, o)]
  ELSE S

(* safe_move that links this at the front instead of at other's position *)
safe_move_front(S, h, o) ==
  IF is_linked(S.nodes, o) THEN
    LET n1 == push_front(S.nodes, fake_node, h)
        n2 == unlink(n1, o)
        ch == TokenChain(S.top, S.toks, MaxDepth + 1)
        t1 == [i \in DOMAIN S.toks |->
                 IF i \in ch /\ S.toks[i].current # fake_node /\ S.toks[i].current = o
                 THEN [S.toks[i] EXCEPT !.current = h]
                 ELSE S.toks[i]]
    IN  [S EXCEPT !.nodes = n2, !.toks = t1, !.uaf = @ \cup DerefSig(S, o)]
  ELSE S

(* connection::safe_move, this = h, other = o *)
safe_move(S, h, o) ==
  IF is_linked(S.nodes, o) THEN
    LET n1 == insert(S.nodes, o, h)
        n2 == unlink(n1, o)
        ch == TokenChain(S.top, S.toks, MaxDepth + 1)
        t1 == [i \in DOMAIN S.toks |->
                 IF i \in ch /\ S.toks[i].current # fake_node /\ S.toks[i].current = o
                 THEN [S.toks[i] EXCEPT !.current = h]
                 ELSE S.toks[i]]
    IN  [S EXCEPT !.nodes = n2, !.toks = t1, !.uaf = @ \cup DerefSig(S, o)]
  ELSE S

(* connection(connection &&other) *)
move_ctor(S, h, o) ==
  LET S1 == [S EXCEPT !.nodes[h] = SelfLinked(h),
                      !.conn[h] = [st |-> "live", sig |-> S.conn[o].sig, slot |-> S.conn[o].slot]]
  IN  safe_move(S1, h, o)

(* connection::operator=(connection &&other); m is the state std::move     *)
(* leaves other.slot in (valid but unspecified: emptied or still holding    *)
(* the callable)                                                            *)
move_assign(S, h, o, m) ==
  IF h = o THEN S
  ELSE
    LET S1 == disconnect(S, h)
        S2 == [S1 EXCEPT !.conn[h].sig = S1.conn[o].sig]
        S3 == [S2 EXCEPT !.conn[h].slot = S2.conn[o].slot,
                         !.conn[o].slot = IF m = "emptied" THEN 0 ELSE @]
    IN  safe_move(S3, h, o)

(* ~connection, then ~list_element *)
destroy_connection(S, h) ==
  LET S1 == disconnect(S, h)
  IN  [S1 EXCEPT !.nodes = unlink(S1.nodes, h), !.conn[h] = FreeConn]

(* a connection constructor that links at the back *)
connect_back(S, h, k) ==
  LET S1 == [S EXCEPT !.nodes[h] = SelfLinked(h),
                      !.conn[h] = [st |-> "live", sig |-> "sig", slot |-> k]]
  IN  [S1 EXCEPT !.nodes = push_back(S1.nodes, fake_node, h)]

(* connection(signal *sig, slot_t slot), reached from signal::connect *)
connect(S, h, k) ==
  LET S1 == [S EXCEPT !.nodes[h] = SelfLinked(h),
                      !.conn[h] = [st |-> "live", sig |-> "sig", slot |-> k]]
  IN  [S1 EXCEPT !.nodes = push_front(S1.nodes, fake_node, h)]

(* ~signal: the loop over the tokens, the loop over the connections        *)
(* (signals.h only), then the destructor of the member list                *)
RECURSIVE drop_front(_, _)
drop_front(S, k) ==
  IF empty(S.nodes, fake_node) \/ k = 0 THEN S
  ELSE LET f == S.nodes[fake_node].next
       IN  drop_front([S EXCEPT !.conn[f].slot = 0, !.conn[f].sig = "null",
                                !.nodes = unlink(S.nodes, f)], k - 1)

(* ~signal without the loop over the tokens *)
destroy_signal_nomark(S) ==
  LET S2 == IF variant = "signals_h" THEN drop_front(S, NumHandles + 1) ELSE S
  IN  [S2 EXCEPT !.nodes = clear(S2.nodes, fake_node, NumHandles + 1)]

destroy_signal(S) ==
  LET ch == TokenChain(S.top, S.toks, MaxDepth + 1)
      t1 == [i \in DOMAIN S.toks |->
               IF i \in ch /\ S.toks[i].current # fake_node
               THEN [S.toks[i] EXCEPT !.gone = TRUE]
               ELSE S.toks[i]]
      S1 == [S EXCEPT !.toks = t1]
      S2 == IF variant = "signals_h" THEN drop_front(S1, NumHandles + 1) ELSE S1
  IN  [S2 EXCEPT !.nodes = clear(S2.nodes, fake_node, NumHandles + 1)]

(* a token that takes over the cursor of the enclosing emission *)
push_token_shared(S) ==
  LET d == Len(S.toks) + 1
      t == [current |-> IF d > 1 THEN S.toks[d - 1].current ELSE begin(S.nodes, fake_node),
            next |-> S.top, gone |-> FALSE,
            copy |-> fake_node, calls |-> 0, log |-> <<>>, snap |-> Slots(S, fake_node), kinds |-> {},
            top0 |-> S.top, below |-> [i \in 1..Len(S.toks) |-> S.toks[i].current]]
  IN  [S EXCEPT !.toks = Append(AddKind(S.toks, "emit"), t), !.top = d]

(* iteration_token(signal const *sig) *)
push_token(S) ==
  LET d == Len(S.toks) + 1
      t == [current |-> begin(S.nodes, fake_node), next |-> S.top, gone |-> FALSE,
            copy |-> fake_node, calls |-> 0, log |-> <<>>, snap |-> Slots(S, fake_node), kinds |-> {},
            top0 |-> S.top, below |-> [i \in 1..Len(S.toks) |-> S.toks[i].current]]
  IN  [S EXCEPT !.toks = Append(AddKind(S.toks, "emit"), t), !.top = d]

(* sig->top_token = nullptr *)
release_null(S, d) ==
  [S EXCEPT !.top = 0,
            !.uaf = @ \cup (IF alive THEN {} ELSE {"top_token"})]

(* sig->top_token = next *)
release(S, d) ==
  [S EXCEPT !.top = S.toks[d].next,
            !.uaf = @ \cup (IF alive THEN {} ELSE {"top_token"})]

Pop(S) == [S EXCEPT !.toks = SubSeq(@, 1, Len(@) - 1)]

FinOf(S, outcome) ==
  LET t == S.toks[Len(S.toks)]
  IN  [outcome |-> outcome, log |-> t.log, snap |-> t.snap, kinds |-> t.kinds,
       top0 |-> t.top0, below |-> t.below, depth |-> Len(S.toks)]

(* an exception that leaves operator() without the token being released *)
unwind_leak(S) ==
  [S |-> Pop(S), fin |-> FinOf(S, "throw"), exc |-> Len(S.toks) > 1, abort |-> FALSE]

(* an exception leaves operator() of the innermost emission:               *)
(* ~iteration_token (signals.h) or the catch block (part_000)              *)
unwind(S) ==
  LET d == Len(S.toks)
      R == IF variant = "signals_h" /\ S.toks[d].gone THEN S ELSE release(S, d)
  IN  [S |-> Pop(R), fin |-> FinOf(S, "throw"), exc |-> d > 1, abort |-> FALSE]

(* the loop of operator() from the point where a callback has returned (or *)
(* from its start) up to the next call of a callback or to the return.     *)
(* ub is the outcome of reading a destroyed connection through a dangling  *)
(* cursor: the stale bytes are still there, or the program stops.  The log *)
(* of the emission records the first MaxLog calls, and calls the parity of *)
(* the number of calls made, so that every call is a change of state.      *)
resume(S, ub) ==
  LET d == Len(S.toks)
      tok == S.toks[d]
  IN
  IF tok.gone THEN
    [S |-> Pop(S), fin |-> FinOf(S, "destroyed"), exc |-> FALSE, abort |-> FALSE]
  ELSE
    LET S1 == [S EXCEPT !.uaf = @ \cup (IF alive THEN {} ELSE {"connections"})]
    IN
    IF tok.current = fake_node THEN
      [S |-> Pop(release(S1, d)), fin |-> FinOf(S1, "normal"), exc |-> FALSE, abort |-> FALSE]
    ELSE
      LET copy == tok.current
          dangling == S1.conn[copy].st = "free"
          S2 == [S1 EXCEPT !.toks[d].current = S1.nodes[copy].next,
                           !.toks[d].copy = copy,
                           !.uaf = @ \cup (IF dangling THEN {"connection"} ELSE {})]
      IN
      IF dangling /\ ub = "abort" THEN
        [S |-> S2, fin |-> NoFin, exc |-> FALSE, abort |-> TRUE]
      ELSE IF S2.conn[copy].slot = 0 THEN unwind(S2)
      ELSE
        [S |-> [S2 EXCEPT !.toks[d].log = IF Len(@) < MaxLog THEN Append(@, S2.conn[copy].slot)
                                          ELSE @,
                          !.toks[d].calls = 1 - @],
         fin |-> NoFin, exc |-> FALSE, abort |-> FALSE]


(***************************************************************************)
(* The operations of a program that uses one signal: at top level when no  *)
(* emission is in progress, or performed by the callback that the          *)
(* innermost emission is executing.                                        *)
(***************************************************************************)
WithKind(k) == [Cur EXCEPT !.toks = AddKind(toks, k)]

Set(S) ==
  /\ nodes' = S.nodes
  /\ conn' = S.conn
  /\ toks' = S.toks
  /\ top_token' = S.top
  /\ uaf' = S.uaf

Init ==
  /\ variant \in Variants
  /\ nodes = [n \in Node |-> SelfLinked(n)]
  /\ conn = [h \in Handle |-> FreeConn]
  /\ alive = TRUE
  /\ top_token = 0
  /\ toks = <<>>
  /\ exc = FALSE
  /\ nsub = 0
  /\ nops = 0
  /\ uaf = {}
  /\ thrown = FALSE
  /\ fin = NoFin
  /\ last = Op("init", 0, 0)

(* signal::connect, the connection constructed in the storage location h *)
Connect(h) ==
  /\ Running /\ Budget /\ alive
  /\ Fresh(h)
  /\ nsub < MaxSubs
  /\ Set(connect(WithKind("other"), h, nsub + 1))
  /\ nsub' = nsub + 1
  /\ fin' = NoFin
  /\ last' = Op("connect", h, 0)
  /\ UNCHANGED <<variant, alive, exc, thrown>>

(* connection() = default: sig is left uninitialised *)
DefaultConstruct(h) ==
  /\ Running /\ Budget
  /\ Fresh(h)
  /\ Set([WithKind("other") EXCEPT !.nodes[h] = SelfLinked(h),
                                  !.conn[h] = [st |-> "live", sig |-> "uninit", slot |-> 0]])
  /\ fin' = NoFin
  /\ last' = Op("construct", h, 0)
  /\ UNCHANGED <<variant, alive, exc, nsub, thrown>>

Disconnect(h) ==
  /\ Running /\ Budget
  /\ Live(h)
  /\ Set(disconnect(WithKind(DiscKind(h)), h))
  /\ fin' = NoFin
  /\ last' = Op("disconnect", h, 0)
  /\ UNCHANGED <<variant, alive, exc, nsub, thrown>>

Destroy(h) ==
  /\ Running /\ Budget
  /\ Live(h)
  /\ Set(destroy_connection(WithKind(IF DiscKind(h) \in {"disc_next", "disc_visited"} THEN DiscKind(h) ELSE "other"), h))
  /\ fin' = NoFin
  /\ last' = Op("destroy", h, 0)
  /\ UNCHANGED <<variant, alive, exc, nsub, thrown>>

MoveConstruct(h, o) ==
  /\ Running /\ Budget
  /\ Fresh(h) /\ Live(o)
  /\ Set(move_ctor(WithKind(MoveKind(h, o)), h, o))
  /\ fin' = NoFin
  /\ last' = Op("move_ctor", h, o)
  /\ UNCHANGED <<variant, alive, exc, nsub, thrown>>

MoveAssign(h, o) ==
  /\ Running /\ Budget
  /\ Live(h) /\ Live(o)
  /\ \E m \in {"emptied", "kept"} : Set(move_assign(WithKind(MoveKind(h, o)), h, o, m))
  /\ fin' = NoFin
  /\ last' = Op("move_assign", h, o)
  /\ UNCHANGED <<variant, alive, exc, nsub, thrown>>

Outcome(R) ==
  /\ Set(R.S)
  /\ fin' = R.fin
  /\ exc' = R.exc
  /\ thrown' = (thrown \/ (R.fin.outcome = "throw" /\ alive))

(* signal::operator(): the token is constructed and the loop runs up to the *)
(* first callback, or to the return on an empty list                        *)
Emit ==
  /\ Running /\ alive /\ Budget
  /\ Depth < MaxDepth
  /\ \E ub \in {"stale", "abort"} :
       LET R == resume(push_token(Cur), ub)
       IN  /\ Outcome(R)
           /\ last' = IF R.abort THEN Op("abort", 0, 0) ELSE Op("emit", 0, 0)
  /\ UNCHANGED <<variant, alive, nsub>>

(* the callback of the innermost emission returns; operator() goes on *)
CallbackReturn ==
  /\ Running
  /\ UNCHANGED nops
  /\ Depth > 0
  /\ \E ub \in {"stale", "abort"} :
       LET R == resume(Cur, ub)
       IN  /\ Outcome(R)
           /\ last' = IF R.abort THEN Op("abort", 0, 0) ELSE Op("return", 0, 0)
  /\ UNCHANGED <<variant, alive, nsub>>

(* the callback of the innermost emission throws, or lets the exception of *)
(* a nested emission pass                                                   *)
CallbackThrow ==
  /\ last.op # "abort"
  /\ IF exc THEN UNCHANGED nops ELSE Budget
  /\ Depth > 0
  /\ Outcome(unwind(Cur))
  /\ last' = Op("throw", 0, 0)
  /\ UNCHANGED <<variant, alive, nsub>>

(* the callback that started the nested emission catches its exception *)
Catch ==
  /\ last.op # "abort"
  /\ exc
  /\ exc' = FALSE
  /\ fin' = NoFin
  /\ last' = Op("catch", 0, 0)
  /\ UNCHANGED <<variant, nodes, conn, alive, top_token, toks, nsub, nops, uaf, thrown>>

DestroySignal ==
  /\ Running /\ Budget /\ alive
  /\ Set(destroy_signal(WithKind("other")))
  /\ alive' = FALSE
  /\ fin' = NoFin
  /\ last' = Op("destroy_signal", 0, 0)
  /\ UNCHANGED <<variant, exc, nsub, thrown>>

Next ==
  \/ \E h \in Handle : Connect(h)
  \/ \E h \in Handle : DefaultConstruct(h)
  \/ \E h \in Handle : Disconnect(h)
  \/ \E h \in Handle : Destroy(h)
  \/ \E h, o \in Handle : MoveConstruct(h, o)
  \/ \E h, o \in Handle : MoveAssign(h, o)
  \/ Emit
  \/ CallbackReturn
  \/ CallbackThrow
  \/ Catch
  \/ DestroySignal

Spec == Init /\ [][Next]_vars


(***************************************************************************)
(* The intrusive list on its own: two lists (fake_node and other_fake) and *)
(* the entities 1..NumHandles, driven through the public operations of     *)
(* list with arguments that meet their preconditions.                      *)
(***************************************************************************)
Lists == {fake_node, other_fake}

ListOp(op, l, args) == [op |-> op, h |-> l, o |-> 0, args |-> args]

(* the iterators of list l: its elements, then end() *)
Iterators(l) == Forward(nodes, l) \o <<l>>

IndexOf(s, x) == CHOOSE i \in DOMAIN s : s[i] = x

ListStep(op, l, args, L) ==
  /\ last.op # "abort"
  /\ nodes' = L
  /\ last' = ListOp(op, l, args)
  /\ UNCHANGED <<variant, conn, alive, top_token, toks, exc, nsub, nops, uaf, thrown, fin>>

ListPushFront(l, e) ==
  /\ ~is_linked(nodes, e)
  /\ ListStep("push_front", l, <<e>>, push_front(nodes, l, e))

ListPushBack(l, e) ==
  /\ ~is_linked(nodes, e)
  /\ ListStep("push_back", l, <<e>>, push_back(nodes, l, e))

ListPopFront(l) ==
  /\ ~empty(nodes, l)
  /\ ListStep("pop_front", l, <<>>, pop_front(nodes, l))

ListPopBack(l) ==
  /\ ~empty(nodes, l)
  /\ ListStep("pop_back", l, <<>>, pop_back(nodes, l))

ListInsert(l, pos, e) ==
  /\ pos \in Range(Iterators(l))
  /\ ~is_linked(nodes, e)
  /\ ListStep("insert", l, <<pos, e>>, insert(nodes, pos, e))

ListErase(l, pos) ==
  /\ pos \in Range(Forward(nodes, l))
  /\ ListStep("erase", l, <<pos>>, erase(nodes, pos))

(* [first, last_) is a range of list other, pos an iterator of l outside it *)
ValidSplice(l, pos, other, first, last_) ==
  LET its == Iterators(other)
  IN  /\ first \in Range(its) /\ last_ \in Range(its)
      /\ IndexOf(its, first) <= IndexOf(its, last_)
      /\ pos \in Range(Iterators(l))
      /\ l = other =>
           ~(IndexOf(its, first) <= IndexOf(its, pos) /\ IndexOf(its, pos) < IndexOf(its, last_))

ListSplice(l, pos, other, first, last_) ==
  /\ ValidSplice(l, pos, other, first, last_)
  /\ ListStep("splice", l, <<pos, other, first, last_>>, splice(nodes, pos, first, last_))

(* a list constructed from l in the storage d, where no list lives *)
ListMoveConstruct(d, l) ==
  /\ d # l
  /\ empty(nodes, d)
  /\ ListStep("list_move_ctor", d, <<l>>, list_move_ctor(nodes, d, l))

ListMoveAssign(d, l) ==
  ListStep("list_move_assign", d, <<l>>, list_move_assign(nodes, d, l))

NextList ==
  \/ \E l \in Lists, e \in Handle : ListPushFront(l, e)
  \/ \E l \in Lists, e \in Handle : ListPushBack(l, e)
  \/ \E l \in Lists : ListPopFront(l)
  \/ \E l \in Lists : ListPopBack(l)
  \/ \E l \in Lists, pos \in Node, e \in Handle : ListInsert(l, pos, e)
  \/ \E l \in Lists, pos \in Node : ListErase(l, pos)
  \/ \E l, other \in Lists :
       \E pos \in Range(Iterators(l)), first, last_ \in Range(Iterators(other)) :
         ListSplice(l, pos, other, first, last_)
  \/ \E d, l \in Lists : ListMoveConstruct(d, l)
  \/ \E d, l \in Lists : ListMoveAssign(d, l)

(* intrusive_list.h is the same file for both versions of the signal *)
InitList == Init /\ variant = "signals_h"

SpecList == InitList /\ [][NextList]_vars

(* C10: after any sequence of list operations with valid arguments the     *)
(* chain is consistent (n.next.prev = n and n.prev.next = n for the         *)
(* sentinels and every linked entity), forward traversal of the lists       *)
(* visits exactly the linked entities, reverse traversal visits them in     *)
(* reverse order, and empty() agrees with begin() = end().                  *)
C10_ListIntegrity ==
  /\ \A n \in Node : nodes[nodes[n].next].prev = n /\ nodes[nodes[n].prev].next = n
  /\ \A l \in Lists :
       /\ Backward(nodes, l) = Reverse(Forward(nodes, l))
       /\ empty(nodes, l) <=> (begin(nodes, l) = l)
  /\ Range(Forward(nodes, fake_node)) \cup Range(Forward(nodes, other_fake))
       = {e \in Handle : is_linked(nodes, e)}


(***************************************************************************)
(* Properties of the signal, checked under Spec                            *)
(***************************************************************************)
ListH == Forward(nodes, fake_node)

ListSlots == Slots(Cur, fake_node)

Decreasing(s) == \A i, j \in DOMAIN s : i < j => s[i] > s[j]

(* the emission reported in fin ended by itself, not because a callback threw *)
EndedByItself == fin.outcome # "none" /\ last.op # "throw"

(* C1: when a callback disconnects (or destroys) the connection the cursor *)
(* of its emission designates, the cursor moves on to the connection that  *)
(* followed it, and an emission in which nothing else was done to the      *)
(* signal returns normally having invoked exactly the connections that are *)
(* still linked, the follower included, each once.                         *)
C1_DisconnectNextSkipsOnlyIt ==
  [][/\ \A h \in Handle :
          (/\ last'.op \in {"disconnect", "destroy"} /\ last'.h = h
           /\ Depth > 0 /\ is_linked(nodes, h) /\ toks[Depth].current = h)
          => toks'[Depth].current = nodes[h].next
     /\ (fin'.kinds = {"disc_next"} /\ last'.op # "throw")
          => (fin'.outcome = "normal" /\ fin'.log = ListSlots')]_vars

(* C2: no emission in flight touches the token stack or the connection     *)
(* list of a signal that has been destroyed.                               *)
C2_NoAccessToDestroyedSignal == uaf \cap {"top_token", "connections"} = {}

(* C3: once the signal is destroyed no emission that is in flight invokes  *)
(* another callback (no log of an emission grows, no emission starts).     *)
C3_NoCallbackAfterSignalDestroyed ==
  [][~alive => (/\ Len(toks') <= Len(toks)
                /\ \A i \in DOMAIN toks' : toks'[i].log = toks[i].log)]_vars

C3_Witness ==
  /\ ~alive
  /\ fin.outcome = "destroyed"
  /\ Len(fin.log) < Len(fin.snap)
  /\ fin.depth = 2

(* C4: an emission whose callbacks did nothing but disconnect their own    *)
(* connection returns normally having invoked every connection that was    *)
(* linked when it began exactly once, in list order.                       *)
C4_SelfDisconnectKeepsOrder ==
  (fin.kinds = {"disc_self"} /\ EndedByItself)
    => (fin.outcome = "normal" /\ fin.log = fin.snap /\ Decreasing(fin.log))

C4_Witness ==
  /\ fin.kinds = {"disc_self"}
  /\ fin.outcome = "normal"
  /\ Len(fin.log) >= 2
  /\ Len(ListH) < Len(fin.log)

(* C5: a nested emission in which the signal is not changed starts at the  *)
(* first connection, visits every linked connection and returns normally   *)
(* leaving the cursors of the enclosing emissions where they were; the     *)
(* enclosing emission then goes on with the follower, so that it too       *)
(* visits every connection once, in order.                                 *)
C5_NestedEmissionIndependentCursor ==
  /\ (fin.depth >= 2 /\ fin.kinds = {} /\ EndedByItself)
       => /\ fin.outcome = "normal"
          /\ fin.log = fin.snap /\ fin.log = ListSlots
          /\ \A i \in 1..(fin.depth - 1) : toks[i].current = fin.below[i]
          /\ top_token = fin.depth - 1
  /\ (fin.kinds = {"emit"} /\ EndedByItself)
       => (fin.outcome = "normal" /\ fin.log = fin.snap)

C5_Witness ==
  /\ fin.depth = 2 /\ fin.kinds = {} /\ fin.outcome = "normal"
  /\ Len(fin.log) >= 2
  /\ toks[1].current # fake_node
  /\ Len(toks[1].log) = 1

(* C6: an emission during which no callback touches the signal or a        *)
(* connection returns normally having invoked every linked connection      *)
(* once, in list order, most recently connected first; on an empty signal  *)
(* it invokes nothing.                                                     *)
C6_EmissionVisitsAllNewestFirst ==
  (fin.kinds = {} /\ EndedByItself)
    => /\ fin.outcome = "normal"
       /\ fin.log = ListSlots
       /\ Decreasing(fin.log)
       /\ Len(fin.log) = Cardinality({h \in Handle : is_linked(nodes, h)})

C6_Witness ==
  /\ fin.kinds = {} /\ fin.outcome = "normal" /\ fin.depth = 1
  /\ Len(fin.log) >= 2

(* C7: when an exception leaves an emission of a living signal, that       *)
(* emission is over, the token stack is what it was when the emission      *)
(* began, and an undisturbed emission after that visits every linked       *)
(* connection.                                                             *)
C7_ExceptionRestoresTokenStack ==
  /\ (fin.outcome = "throw" /\ alive)
       => /\ Len(toks) = fin.depth - 1
          /\ top_token = fin.top0
          /\ top_token = Len(toks)
          /\ TokenChain(top_token, toks, MaxDepth + 1) = DOMAIN toks
  /\ (thrown /\ alive /\ fin.kinds = {} /\ EndedByItself)
       => (fin.outcome = "normal" /\ fin.log = ListSlots)

C7_Witness ==
  /\ thrown /\ alive
  /\ fin.kinds = {} /\ fin.outcome = "normal"
  /\ Len(fin.log) >= 2

(* C8: moving a linked connection into a handle that is not linked leaves  *)
(* the list as it was with the new handle in the place of the old one      *)
(* (same predecessor, same successor) and the old handle unlinked.         *)
Replace(s, a, b) == [i \in DOMAIN s |-> IF s[i] = a THEN b ELSE s[i]]

C8_MovePreservesPosition ==
  [][\A h, o \in Handle :
       (/\ last'.op \in {"move_ctor", "move_assign"} /\ last'.h = h /\ last'.o = o
        /\ h # o /\ is_linked(nodes, o) /\ ~is_linked(nodes, h))
       => /\ Forward(nodes', fake_node) = Replace(ListH, o, h)
          /\ nodes'[h].prev = nodes[o].prev /\ nodes'[h].next = nodes[o].next
          /\ ~is_linked(nodes', o)]_vars

C8_Witness ==
  /\ last.op \in {"move_ctor", "move_assign"}
  /\ Len(ListH) >= 2
  /\ ListH[Len(ListH)] = last.h
  /\ ~is_linked(nodes, last.o)

(* C9: the destruction of the signal leaves every connection that was      *)
(* linked to it unlinked and without a callback, and a later disconnect or *)
(* destruction of a connection changes no list, no other connection and    *)
(* does not touch the destroyed signal.                                    *)
C9_SignalDestructionOrphansConnections ==
  [][/\ last'.op = "destroy_signal"
          => \A h \in Handle : is_linked(nodes, h)
                 => (~is_linked(nodes', h) /\ conn'[h].slot = 0)
     /\ (~alive /\ last'.op \in {"disconnect", "destroy"})
          => /\ nodes' = nodes /\ uaf' = uaf
             /\ \A h \in Handle : h # last'.h => conn'[h] = conn[h]
             /\ last'.op = "disconnect" => conn' = conn]_vars

(***************************************************************************)
(* C11.  A, B and C are connected in that order (callbacks 1, 2 and 3) and *)
(* one emission is made in which B's callback disconnects the connection   *)
(* of C and the connection of A.  The scenario is recognised by the        *)
(* emission's record: it began on the list 3, 2, 1, the only things done   *)
(* to the signal during it were the disconnection of a connection already  *)
(* called and of the connection under the cursor, and callback 2 alone is  *)
(* still connected.                                                         *)
(***************************************************************************)
BDisconnectsCAndA(r) ==
  /\ r.snap = <<3, 2, 1>>
  /\ r.kinds = {"disc_visited", "disc_next"}
  /\ ListSlots = <<2>>

(* C11 as stated: the emission calls B's callback and no other callback *)
C11_OnlyBInvoked ==
  /\ (Depth = 1 /\ BDisconnectsCAndA(toks[1])) => toks[1].log = <<2>>
  /\ (fin.depth = 1 /\ BDisconnectsCAndA(fin)) => fin.log = <<2>>

(* C11 amended: the emission calls C's callback, which precedes B in the  *)
(* order of the list, then B's callback, and no other: A's callback is    *)
(* not called                                                             *)
C11_OnlyCThenBInvoked ==
  /\ (Depth = 1 /\ BDisconnectsCAndA(toks[1])) => toks[1].log = <<3, 2>>
  /\ (fin.depth = 1 /\ BDisconnectsCAndA(fin)) => fin.log = <<3, 2>>

C11_Witness ==
  /\ fin.depth = 1 /\ BDisconnectsCAndA(fin)
  /\ Depth = 0 /\ last.op = "return"

(***************************************************************************)
(* C12.  After a move (construction or assignment from another handle) the *)
(* moved-from connection is unlinked and holds no callback, and a later    *)
(* disconnect or destruction of an unlinked connection changes neither the *)
(* list nor a cursor.                                                      *)
(***************************************************************************)
Cursors(tk) == [i \in DOMAIN tk |-> tk[i].current]

C12_MovedFromUnlinkedAndEmpty ==
  [][ /\ (last'.op \in {"move_ctor", "move_assign"} /\ last'.h # last'.o)
         => /\ ~is_linked(nodes', last'.o)
            /\ conn'[last'.o].slot = 0
      /\ (last'.op \in {"disconnect", "destroy"} /\ ~is_linked(nodes, last'.h))
         => /\ ListH' = ListH
            /\ Cursors(toks') = Cursors(toks) ]_vars

(***************************************************************************)
(* C13.  disconnect() on a linked connection unlinks it, clears its        *)
(* callback and keeps the order of the other connections; on a connection  *)
(* that is not linked it changes neither the connection, nor the list, nor *)
(* a cursor, nor the token stack.  A second disconnect() therefore changes *)
(* nothing.                                                                *)
(***************************************************************************)
Without(s, x) == SelectSeq(s, LAMBDA y : y # x)

C13_DisconnectIdempotent ==
  [][ last'.op = "disconnect" =>
        LET h == last'.h IN
        IF is_linked(nodes, h)
        THEN /\ ~is_linked(nodes', h)
             /\ conn'[h].slot = 0
             /\ ListH' = Without(ListH, h)
        ELSE /\ nodes' = nodes
             /\ conn' = conn
             /\ Cursors(toks') = Cursors(toks)
             /\ top_token' = top_token ]_vars

(* disconnect() has been called on an unlinked connection that holds a *)
(* callback while an emission is in progress on a non-empty list       *)
C13_Witness ==
  /\ last.op = "disconnect"
  /\ conn[last.h].slot # 0
  /\ Depth > 0 /\ ListH # <<>>

(***************************************************************************)
(* C14.  Move construction of a list in storage d from list l, and move    *)
(* assignment of l into another list d, leave d holding the entities l     *)
(* held, in the same order (forwards and backwards), leave l empty, and    *)
(* leave every entity d held before unlinked.                              *)
(***************************************************************************)
C14_ListMoveTransfersEntities ==
  [][ (last'.op \in {"list_move_ctor", "list_move_assign"} /\ last'.h # last'.args[1]) =>
        LET d == last'.h
            l == last'.args[1]
        IN  /\ Forward(nodes', d) = Forward(nodes, l)
            /\ Backward(nodes', d) = Reverse(Forward(nodes, l))
            /\ nodes'[l] = SelfLinked(l)
            /\ \A e \in Range(Forward(nodes, d)) : ~is_linked(nodes', e) ]_vars

(* a list of two or more entities has been move-assigned into a list that *)
(* held an entity                                                         *)
C14_Witness ==
  /\ last.op = "list_move_assign" /\ last.h # last.args[1]
  /\ Len(Forward(nodes, last.h)) >= 2
  /\ \E e \in Handle : ~is_linked(nodes, e)

(***************************************************************************)
(* C15.  splice(pos, other, first, last) on well-formed lists, with pos    *)
(* outside [first, last): the entities of the range leave the list they    *)
(* were in and stand, in their order, immediately before pos; every other  *)
(* entity of both lists keeps its list and its relative order.  The cases  *)
(* other = destination, pos = last and first = last are included.          *)
(***************************************************************************)
SpliceRange(other, first, last_) ==
  LET its == Iterators(other)
  IN  SubSeq(its, IndexOf(its, first), IndexOf(its, last_) - 1)

Minus(s, r) == SelectSeq(s, LAMBDA y : y \notin Range(r))

InsertBefore(s, l, pos, r) ==
  IF pos = l THEN s \o r
  ELSE LET i == IndexOf(s, pos)
       IN  SubSeq(s, 1, i - 1) \o r \o SubSeq(s, i, Len(s))

C15_SpliceMovesRange ==
  [][ (last'.op = "splice" /\ C10_ListIntegrity) =>
        LET l == last'.h
            pos == last'.args[1]
            other == last'.args[2]
            r == SpliceRange(other, last'.args[3], last'.args[4])
        IN  /\ Forward(nodes', l) = InsertBefore(Minus(Forward(nodes, l), r), l, pos, r)
            /\ other # l => Forward(nodes', other) = Minus(Forward(nodes, other), r)
            /\ \A x \in Lists : Backward(nodes', x) = Reverse(Forward(nodes', x)) ]_vars

(***************************************************************************)
(* C16.  While the signal is alive, the cursor of every token on its token *)
(* stack designates end() or a connection that is linked in the signal's   *)
(* list: never an unlinked or a destroyed connection.                      *)
(***************************************************************************)
C16_CursorsDesignateLinkedOrEnd ==
  alive =>
    \A i \in TokenChain(top_token, toks, MaxDepth + 1) :
      \/ toks[i].current = fake_node
      \/ toks[i].current \in Range(ListH) /\ Live(toks[i].current)

(***************************************************************************)
(* C17.  When the connection that cursors designate is moved into another  *)
(* handle (move construction, or move assignment from a linked connection) *)
(* every cursor that designated the old handle designates the new one; and *)
(* an emission during which nothing else was done to the signal than such  *)
(* moves of the connection under the innermost cursor (and nested          *)
(* emissions) returns having called exactly the callbacks that were        *)
(* connected when it began, each once, in list order.                      *)
(***************************************************************************)
C17_MoveUnderCursorFollowed ==
  [][ /\ (/\ last'.op \in {"move_ctor", "move_assign"}
          /\ last'.h # last'.o
          /\ is_linked(nodes, last'.o))
         => \A i \in TokenChain(top_token, toks, MaxDepth + 1) :
              toks[i].current = last'.o => toks'[i].current = last'.h
      /\ (/\ fin'.outcome # "none" /\ last'.op # "throw"
          /\ fin'.kinds \in {{"move_next"}, {"emit", "move_next"}})
         => /\ fin'.outcome = "normal"
            /\ fin'.log = fin'.snap ]_vars

(* a callback of a nested emission has just moved the connection that the *)
(* cursors of both emissions designated                                   *)
C17_Witness ==
  /\ last.op \in {"move_ctor", "move_assign"}
  /\ Depth = 2
  /\ toks[2].kinds = {"move_next"}
  /\ toks[1].current = last.h /\ toks[2].current = last.h
  /\ is_linked(nodes, last.h) /\ ~is_linked(nodes, last.o)

(***************************************************************************)
(* C18.  While the signal is alive its token stack is exactly the tokens   *)
(* of the emissions in progress: top_token is the token of the innermost   *)
(* one and each token's next is the token of the emission enclosing it     *)
(* (null for the outermost).  When an emission has returned or let an      *)
(* exception pass, top_token is what it was when that emission began.      *)
(***************************************************************************)
C18_TokenStackIsEmissionsInProgress ==
  alive =>
    /\ top_token = Depth
    /\ \A i \in DOMAIN toks : toks[i].next = i - 1
    /\ TokenChain(top_token, toks, MaxDepth + 1) = DOMAIN toks
    /\ fin.outcome \in {"normal", "throw"} => top_token = fin.top0

(* a nested emission has just ended while the enclosing one goes on *)
C18_Witness ==
  /\ alive
  /\ fin.outcome \in {"normal", "throw"} /\ fin.depth = 2
  /\ Depth = 1 /\ top_token = 1

(***************************************************************************)
(* Every callback returns or fails: the callback of the innermost emission *)
(* does not run forever, and an exception that left a nested emission is   *)
(* caught or passed on.                                                    *)
(***************************************************************************)
SpecFair == Spec /\ WF_vars(CallbackReturn \/ CallbackThrow)

(***************************************************************************)
(* C19.  Every emission eventually ends: whenever emissions are in         *)
(* progress, a state follows in which none is (or the program has          *)
(* stopped).                                                               *)
(***************************************************************************)
C19_EveryEmissionEnds ==
  (Depth > 0) ~> (Depth = 0 \/ last.op = "abort")

(***************************************************************************)
(* C20.  Move assignment of other into a linked handle this: this's        *)
(* previous subscription leaves the list and its callback is in no linked  *)
(* connection afterwards, every cursor that designated this is advanced to *)
(* the connection that followed it, and this takes the list position of    *)
(* other when other is linked (so a cursor advanced onto other designates  *)
(* this) or is left unlinked when other is not linked.  Self-assignment    *)
(* changes nothing.                                                        *)
(***************************************************************************)
C20_MoveAssignIntoLinkedHandle ==
  [][ (last'.op = "move_assign" /\ is_linked(nodes, last'.h)) =>
        LET h == last'.h
            o == last'.o
            follower == nodes[h].next
        IN  IF h = o
            THEN /\ nodes' = nodes /\ conn' = conn
                 /\ Cursors(toks') = Cursors(toks) /\ top_token' = top_token
            ELSE /\ conn[h].slot \notin Range(ListSlots')
                 /\ conn'[h].slot = conn[o].slot
                 /\ IF is_linked(nodes, o)
                    THEN ListH' = Replace(Without(ListH, h), o, h)
                    ELSE ListH' = Without(ListH, h) /\ ~is_linked(nodes', h)
                 /\ \A i \in TokenChain(top_token, toks, MaxDepth + 1) :
                      toks[i].current = h =>
                        toks'[i].current =
                          IF is_linked(nodes, o) /\ follower = o THEN h ELSE follower ]_vars

====
